---- MODULE Spec2Model ----
(***************************************************************************)
(* Model of the MediReach appointment back end: the appointment lifecycle  *)
(* (create / update / remove of the appointment controller), the doctor    *)
(* profile it reads, the unique partial index of the Appointment model,    *)
(* the global error handler, and the slot generation of getSlots.          *)
(*                                                                         *)
(* Every await of a handler is a scheduling point: a handler that reads    *)
(* mutable data and then writes is split into one action per await, so     *)
(* that requests of different clients interleave as they do on the server. *)
(***************************************************************************)
EXTENDS Integers, Sequences, FiniteSets, TLC

VARIABLES
  now,           \* the current instant (new Date()), minutes
  doctors,       \* Doctor collection: doctor id -> profile fields
  appointments,  \* Appointment collection: sequence, _id = position
  req,           \* per client: its request, the handler's position, the response
  slotOut,       \* the last answer of getSlots, with the candidates it built
  users          \* User collection: the accounts registered, _id = position

vars == <<now, doctors, appointments, req, slotOut, users>>

----------------------------------------------------------------------------
(* Bounds of the model *)

\* at most this many appointment documents are inserted
MaxAppts == 2
\* the clock stops advancing at this instant
MaxNow == 545

(* Program constants *)

\* Doctor.slotDuration default
DefaultSlotDuration == 30

Clients == {"c1", "c2"}

Patients == {"p1", "p2"}
DoctorUsers == {"ud1", "ud2"}
Admins == {"adm"}
Users == Patients \cup DoctorUsers \cup Admins

\* User.role
Role(u) == IF u \in Patients THEN "patient"
           ELSE IF u \in DoctorUsers THEN "doctor" ELSE "admin"

\* the Doctor documents that exist, and one id no document has
Doctors == {"d1", "d2"}
MissingDoctor == "dX"
DoctorIds == Doctors \cup {MissingDoctor}

\* Doctor.findOne({ user }) : the profile of a user, "none" when there is none
DoctorOf(u) == IF u = "ud1" THEN "d1" ELSE IF u = "ud2" THEN "d2" ELSE "none"

\* the instants a booking may ask for (09:00 and 09:15, minutes of the day)
BookTimes == {540, 555}
\* the instant the model starts at (08:50) and the clock's step
StartNow == 530
ClockStep == 15

\* Appointment.status enum
StatusEnum == {"pending", "confirmed", "completed", "cancelled", "no-show"}
\* Appointment.cancelledBy enum (null is "null")
CancelledByEnum == {"patient", "doctor", "system", "null"}

\* Appointment.type enum
TypeEnum == {"in-person", "video", "phone"}
\* Doctor.slotDuration enum
SlotDurationEnum == {15, 30, 45, 60}

\* a request field that the body does not carry (undefined); like the empty
\* string it is falsy in the handlers' tests
ABSENT == ""
\* a document field that holds null / was never set
NULL == "null"

----------------------------------------------------------------------------
(* Error handling: what a thrown error becomes at the caller *)

ValidationError == [name |-> "ValidationError", code |-> 0]
DuplicateKeyError == [name |-> "MongoServerError", code |-> 11000]
NoError == [name |-> "none", code |-> 0]

MsgDoctorNotFound == "Doctor not found"
MsgNotAccepting == "Doctor not accepting new patients"
MsgSlotTaken == "Time slot is not available"
MsgDuplicate == "doctor already exists"
MsgNotFound == "Appointment not found"
MsgNotAuthorized == "Not authorized"
MsgRole == "Role is not authorized to access this route"
MsgValidation == "validation failed"
MsgServerError == "Server Error"

Response(status, error) == [status |-> status, error |-> error]

\* the handler without its duplicate-key branch
errorHandler_NoDuplicateKey(err) ==
  IF err.name = "CastError" THEN Response(404, "Resource not found")
  ELSE IF err.name = "ValidationError" THEN Response(400, MsgValidation)
  ELSE Response(500, MsgServerError)

\* middleware/errorHandler.js : next(err) ends here
errorHandler(err) ==
  IF err.name = "CastError" THEN Response(404, "Resource not found")
  ELSE IF err.code = 11000 THEN Response(400, MsgDuplicate)
  ELSE IF err.name = "ValidationError" THEN Response(400, MsgValidation)
  ELSE Response(500, MsgServerError)

----------------------------------------------------------------------------
(* The Appointment collection *)

Ids(apps) == 1..Len(apps)

\* the query without its status filter: cancelled appointments hold the slot too
isSlotAvailable_CountsCancelled(apps, doctorId, dateTime, excludeId) ==
  ~ \E i \in Ids(apps) :
        /\ apps[i].doctor = doctorId
        /\ apps[i].dateTime = dateTime
        /\ (excludeId # 0 => i # excludeId)

\* the query without its doctor path: an appointment of any doctor holds the instant
isSlotAvailable_AnyDoctor(apps, doctorId, dateTime, excludeId) ==
  ~ \E i \in Ids(apps) :
        /\ apps[i].dateTime = dateTime
        /\ apps[i].status \notin {"cancelled"}
        /\ (excludeId # 0 => i # excludeId)

\* the query with pending appointments left out as well as cancelled ones
isSlotAvailable_PendingFree(apps, doctorId, dateTime, excludeId) ==
  ~ \E i \in Ids(apps) :
        /\ apps[i].doctor = doctorId
        /\ apps[i].dateTime = dateTime
        /\ apps[i].status \notin {"cancelled", "pending"}
        /\ (excludeId # 0 => i # excludeId)

\* Appointment.isSlotAvailable(doctorId, dateTime, excludeId = null); excludeId 0 is null
isSlotAvailable(apps, doctorId, dateTime, excludeId) ==
  ~ \E i \in Ids(apps) :
        /\ apps[i].doctor = doctorId
        /\ apps[i].dateTime = dateTime
        /\ apps[i].status \notin {"cancelled"}
        /\ (excludeId # 0 => i # excludeId)

\* the index with a filter that covers confirmed appointments only
UniqueIndexHolds_ConfirmedOnly(apps) ==
  \A i, j \in Ids(apps) :
      ( /\ i # j
        /\ apps[i].status = "confirmed"
        /\ apps[j].status = "confirmed"
        /\ apps[i].doctor = apps[j].doctor )
      => apps[i].dateTime # apps[j].dateTime

\* the collection without the unique index
UniqueIndexHolds_NoIndex(apps) == TRUE

\* the unique partial index { doctor, dateTime } over status $ne 'cancelled':
\* the collection as a write would leave it has no two indexed documents with one key
UniqueIndexHolds(apps) ==
  \A i, j \in Ids(apps) :
      ( /\ i # j
        /\ apps[i].status # "cancelled"
        /\ apps[j].status # "cancelled"
        /\ apps[i].doctor = apps[j].doctor )
      => apps[i].dateTime # apps[j].dateTime

\* schema validators of the paths a write sets
ValidDoc(a) ==
  /\ a.reason # ABSENT
  /\ a.status \in StatusEnum
  /\ a.type \in TypeEnum
  /\ a.cancelledBy \in CancelledByEnum

\* a write that runs the validators only
WriteError_ValidatorsOnly(apps, a) ==
  IF ~ValidDoc(a) THEN ValidationError ELSE NoError

\* the error, if any, of writing the collection apps with document a new or changed
WriteError(apps, a) ==
  IF ~ValidDoc(a) THEN ValidationError
  ELSE IF ~UniqueIndexHolds(apps) THEN DuplicateKeyError
  ELSE NoError

----------------------------------------------------------------------------
(* Requests: a client is idle, or has a request whose handler stands at an
   await (pc "doctor", "checked", "loaded"), or holds the response to its
   request (pc "replied") until it takes it *)

NoBody == [none |-> TRUE]

Idle == [pc |-> "idle", op |-> "none", user |-> "none", id |-> 0, body |-> NoBody,
         at |-> 0, slotDuration |-> 0, fee |-> 0, dirty |-> {},
         status |-> 0, error |-> "", data |-> <<>>]

\* a request as it reaches its handler at instant at
Request(op, user, id, body, at) ==
  [Idle EXCEPT !.op = op, !.user = user, !.id = id, !.body = body, !.at = at]

\* create handlers between their first await and their insert
InFlightCreates == {c \in Clients : req[c].pc \in {"doctor", "checked"}}

\* res.status(...).json(...) : the handler of request r ends with response x
Reply(c, r, x) ==
  req' = [req EXCEPT ![c] =
            [Request(r.op, r.user, r.id, r.body, r.at) EXCEPT
               !.pc = "replied", !.status = x.status, !.error = x.error]]

\* the client takes the response
Receive(c) ==
  /\ req[c].pc = "replied"
  /\ req' = [req EXCEPT ![c] = Idle]
  /\ UNCHANGED <<now, doctors, appointments, slotOut, users>>

----------------------------------------------------------------------------
(* A call of the static method Appointment.isSlotAvailable on its own *)

SlotQuery(doctorId, dateTime) == [doctorId |-> doctorId, dateTime |-> dateTime]

\* a check that holds the free slot with a pending placeholder
CallIsSlotAvailable_Holds(c, doctorId, dateTime, excludeId) ==
  /\ req[c].pc = "idle"
  /\ LET free == isSlotAvailable(appointments, doctorId, dateTime, excludeId)
         r == Request("isSlotAvailable", "none", excludeId,
                      SlotQuery(doctorId, dateTime), now)
         hold == [patient |-> "none", doctor |-> doctorId, dateTime |-> dateTime,
                  endTime |-> dateTime, status |-> "pending", type |-> "in-person",
                  reason |-> "hold", notesPatient |-> ABSENT, notesDoctor |-> NULL,
                  prescription |-> NULL, feeAmount |-> 0, cancelledBy |-> NULL,
                  cancellationReason |-> NULL]
     IN /\ req' = [req EXCEPT ![c] = [r EXCEPT !.pc = "replied", !.data = <<free>>]]
        /\ appointments' = IF free THEN Append(appointments, hold) ELSE appointments
  /\ UNCHANGED <<now, doctors, slotOut, users>>

\* await this.findOne(query); return !existing : the caller holds the result
CallIsSlotAvailable(c, doctorId, dateTime, excludeId) ==
  /\ req[c].pc = "idle"
  /\ req' = [req EXCEPT ![c] =
               [Request("isSlotAvailable", "none", excludeId,
                        SlotQuery(doctorId, dateTime), now)
                  EXCEPT !.pc = "replied",
                         !.data = <<isSlotAvailable(appointments, doctorId,
                                                    dateTime, excludeId)>>]]
  /\ UNCHANGED <<now, doctors, appointments, slotOut, users>>

----------------------------------------------------------------------------
(* POST /api/appointments : protect, authorize('patient'), create *)

\* the document with endTime left at the start instant
NewAppointment_NoDuration(r) ==
  [patient |-> r.user,
   doctor |-> r.body.doctorId,
   dateTime |-> r.body.dateTime,
   endTime |-> r.body.dateTime,
   status |-> "pending",
   type |-> IF r.body.type # ABSENT THEN r.body.type ELSE "in-person",
   reason |-> r.body.reason,
   notesPatient |-> r.body.notes,
   notesDoctor |-> NULL,
   prescription |-> NULL,
   feeAmount |-> r.fee,
   cancelledBy |-> NULL,
   cancellationReason |-> NULL]

\* the document Appointment.create is given, schema defaults applied
NewAppointment(r) ==
  [patient |-> r.user,
   doctor |-> r.body.doctorId,
   dateTime |-> r.body.dateTime,
   endTime |-> r.body.dateTime + r.slotDuration,
   status |-> "pending",
   type |-> IF r.body.type # ABSENT THEN r.body.type ELSE "in-person",
   reason |-> r.body.reason,
   notesPatient |-> r.body.notes,
   notesDoctor |-> NULL,
   prescription |-> NULL,
   feeAmount |-> r.fee,
   cancelledBy |-> NULL,
   cancellationReason |-> NULL]

\* the handler without the acceptingNewPatients test
CreateFindDoctor_NoAcceptingTest(c, user, body) ==
  /\ req[c].pc = "idle"
  /\ Len(appointments) + Cardinality(InFlightCreates) < MaxAppts
  /\ LET r == Request("create", user, 0, body, now)
     IN IF Role(user) # "patient"
          THEN Reply(c, r, Response(403, MsgRole))
        ELSE IF body.doctorId \notin Doctors
          THEN Reply(c, r, Response(404, MsgDoctorNotFound))
        ELSE req' = [req EXCEPT ![c] =
                       [r EXCEPT !.pc = "doctor",
                          !.slotDuration = doctors[body.doctorId].slotDuration,
                          !.fee = doctors[body.doctorId].consultationFee]]
  /\ UNCHANGED <<now, doctors, appointments, slotOut, users>>

\* authorize('patient'), then Doctor.findById and the two tests on the doctor
CreateFindDoctor(c, user, body) ==
  /\ req[c].pc = "idle"
  /\ Len(appointments) + Cardinality(InFlightCreates) < MaxAppts
  /\ LET r == Request("create", user, 0, body, now)
     IN IF Role(user) # "patient"
          THEN Reply(c, r, Response(403, MsgRole))
        ELSE IF body.doctorId \notin Doctors
          THEN Reply(c, r, Response(404, MsgDoctorNotFound))
        ELSE IF ~doctors[body.doctorId].acceptingNewPatients
          THEN Reply(c, r, Response(400, MsgNotAccepting))
        ELSE req' = [req EXCEPT ![c] =
                       [r EXCEPT !.pc = "doctor",
                          !.slotDuration = doctors[body.doctorId].slotDuration,
                          !.fee = doctors[body.doctorId].consultationFee]]
  /\ UNCHANGED <<now, doctors, appointments, slotOut, users>>

\* await Appointment.isSlotAvailable(doctorId, appointmentDateTime)
CreateCheckSlot(c) ==
  /\ req[c].pc = "doctor"
  /\ IF ~isSlotAvailable(appointments, req[c].body.doctorId, req[c].body.dateTime, 0)
       THEN Reply(c, req[c], Response(400, MsgSlotTaken))
       ELSE req' = [req EXCEPT ![c].pc = "checked"]
  /\ UNCHANGED <<now, doctors, appointments, slotOut, users>>

\* await Appointment.create({...}), the response, or next(err)
CreateInsert(c) ==
  /\ req[c].pc = "checked"
  /\ LET doc == NewAppointment(req[c])
         after == Append(appointments, doc)
         err == WriteError(after, doc)
     IN IF err # NoError
          THEN /\ Reply(c, req[c], errorHandler(err))
               /\ UNCHANGED appointments
          ELSE /\ appointments' = after
               /\ Reply(c, [req[c] EXCEPT !.id = Len(after)], Response(201, ""))
  /\ UNCHANGED <<now, doctors, slotOut, users>>

----------------------------------------------------------------------------
(* PUT /api/appointments/:id : protect, update *)

\* a path the updates object does not name
UNSET == "<unset>"

\* the updates object filled without asking who the actor is
Updates_AnyActor(isPatient, isDoctor, role, body) ==
  LET u0 == [status |-> UNSET, notesPatient |-> UNSET, notesDoctor |-> UNSET,
             prescription |-> UNSET, cancelledBy |-> UNSET,
             cancellationReason |-> UNSET]
      u1 == IF body.notes # ABSENT
              THEN [u0 EXCEPT !.notesPatient = body.notes] ELSE u0
      u2 == [u1 EXCEPT
               !.status = IF body.status # ABSENT THEN body.status ELSE @,
               !.notesDoctor = IF body.notes # ABSENT THEN body.notes ELSE @,
               !.prescription =
                   IF body.prescription # ABSENT THEN body.prescription ELSE @]
  IN IF body.status = "cancelled"
       THEN [u2 EXCEPT !.status = "cancelled", !.cancelledBy = role,
                       !.cancellationReason = body.reason]
       ELSE u2

\* const updates = {} ... as the handler fills it from the body and the actor
Updates(isPatient, isDoctor, role, body) ==
  LET u0 == [status |-> UNSET, notesPatient |-> UNSET, notesDoctor |-> UNSET,
             prescription |-> UNSET, cancelledBy |-> UNSET,
             cancellationReason |-> UNSET]
      u1 == IF isPatient /\ body.notes # ABSENT
              THEN [u0 EXCEPT !.notesPatient = body.notes] ELSE u0
      u2 == IF isDoctor
              THEN [u1 EXCEPT
                      !.status = IF body.status # ABSENT THEN body.status ELSE @,
                      !.notesDoctor = IF body.notes # ABSENT THEN body.notes ELSE @,
                      !.prescription =
                          IF body.prescription # ABSENT THEN body.prescription ELSE @]
              ELSE u1
  IN IF body.status = "cancelled"
       THEN [u2 EXCEPT !.status = "cancelled", !.cancelledBy = role,
                       !.cancellationReason = body.reason]
       ELSE u2

\* a write that takes a cancelled appointment off its slot
ApplyUpdates_ClearsSlot(a, u) ==
  [a EXCEPT
     !.status = IF u.status # UNSET THEN u.status ELSE @,
     !.dateTime = IF u.status = "cancelled" THEN 0 ELSE @,
     !.notesPatient = IF u.notesPatient # UNSET THEN u.notesPatient ELSE @,
     !.notesDoctor = IF u.notesDoctor # UNSET THEN u.notesDoctor ELSE @,
     !.prescription = IF u.prescription # UNSET THEN u.prescription ELSE @,
     !.cancelledBy = IF u.cancelledBy # UNSET THEN u.cancelledBy ELSE @,
     !.cancellationReason =
         IF u.cancellationReason # UNSET THEN u.cancellationReason ELSE @]

\* $set of the named paths on one document
ApplyUpdates(a, u) ==
  [a EXCEPT
     !.status = IF u.status # UNSET THEN u.status ELSE @,
     !.notesPatient = IF u.notesPatient # UNSET THEN u.notesPatient ELSE @,
     !.notesDoctor = IF u.notesDoctor # UNSET THEN u.notesDoctor ELSE @,
     !.prescription = IF u.prescription # UNSET THEN u.prescription ELSE @,
     !.cancelledBy = IF u.cancelledBy # UNSET THEN u.cancelledBy ELSE @,
     !.cancellationReason =
         IF u.cancellationReason # UNSET THEN u.cancellationReason ELSE @]

isPatientOf(a, user) == a.patient = user

\* the test that only asks whether the user has a doctor profile
isDoctorOf_AnyProfile(a, user) == DoctorOf(user) # "none"

\* doctor && appointment.doctor._id.toString() === doctor._id.toString()
isDoctorOf(a, user) == DoctorOf(user) # "none" /\ a.doctor = DoctorOf(user)

\* the handler reads only fields no request changes (patient, doctor, the
\* user's profile) before its one write, findByIdAndUpdate with runValidators
Update(c, user, id, body) ==
  /\ req[c].pc = "idle"
  /\ UNCHANGED <<now, doctors, slotOut, users>>
  /\ LET r == Request("update", user, id, body, now)
     IN IF id \notin Ids(appointments)
          THEN /\ Reply(c, r, Response(404, MsgNotFound))
               /\ UNCHANGED appointments
        ELSE LET a == appointments[id]
                 isPatient == isPatientOf(a, user)
                 isDoctor == isDoctorOf(a, user)
                 b == ApplyUpdates(a, Updates(isPatient, isDoctor, Role(user), body))
                 after == [appointments EXCEPT ![id] = b]
                 err == WriteError(after, b)
             IN IF ~isPatient /\ ~isDoctor /\ Role(user) # "admin"
                  THEN /\ Reply(c, r, Response(403, MsgNotAuthorized))
                       /\ UNCHANGED appointments
                ELSE IF err # NoError
                  THEN /\ Reply(c, r, errorHandler(err))
                       /\ UNCHANGED appointments
                ELSE /\ appointments' = after
                     /\ Reply(c, r, Response(200, ""))

----------------------------------------------------------------------------
(* DELETE /api/appointments/:id : protect, remove *)

CancelText(reason) == IF reason # ABSENT THEN reason ELSE "Cancelled by user"

\* the paths the three assignments change on the document findById loaded
DirtyPaths(a, role, reason) ==
  {f \in {"status", "cancelledBy", "cancellationReason"} :
      a[f] # (CASE f = "status" -> "cancelled"
                [] f = "cancelledBy" -> role
                [] OTHER -> CancelText(reason))}

\* await Appointment.findById, the authorization test and the three
\* assignments on the loaded document, up to await appointment.save()
RemoveFind(c, user, id, reason) ==
  /\ req[c].pc = "idle"
  /\ UNCHANGED <<now, doctors, appointments, slotOut, users>>
  /\ LET r == Request("remove", user, id, [reason |-> reason], now)
     IN IF id \notin Ids(appointments)
          THEN Reply(c, r, Response(404, MsgNotFound))
        ELSE IF ~isPatientOf(appointments[id], user) /\ Role(user) # "admin"
          THEN Reply(c, r, Response(403, MsgNotAuthorized))
        ELSE req' = [req EXCEPT ![c] =
                       [r EXCEPT !.pc = "loaded",
                          !.dirty = DirtyPaths(appointments[id], Role(user), reason)]]

\* the handler deleting the document instead of saving it
RemoveSave_Deletes(c) ==
  /\ req[c].pc = "loaded"
  /\ UNCHANGED <<now, doctors, slotOut, users>>
  /\ appointments' = [i \in 1..(Len(appointments) - 1) |->
                         IF i < req[c].id THEN appointments[i] ELSE appointments[i + 1]]
  /\ Reply(c, req[c], Response(200, ""))

\* appointment.save(): validates the document in memory, then sends a $set
\* of the paths the assignments changed
RemoveSave(c) ==
  /\ req[c].pc = "loaded"
  /\ UNCHANGED <<now, doctors, slotOut, users>>
  /\ LET r == req[c]
         role == Role(r.user)
         u == [status |-> IF "status" \in r.dirty THEN "cancelled" ELSE UNSET,
               notesPatient |-> UNSET, notesDoctor |-> UNSET, prescription |-> UNSET,
               cancelledBy |-> IF "cancelledBy" \in r.dirty THEN role ELSE UNSET,
               cancellationReason |->
                   IF "cancellationReason" \in r.dirty
                     THEN CancelText(r.body.reason) ELSE UNSET]
         b == ApplyUpdates(appointments[r.id], u)
         after == [appointments EXCEPT ![r.id] = b]
         err == IF role \notin CancelledByEnum THEN ValidationError
                ELSE WriteError(after, b)
     IN IF err # NoError
          THEN /\ Reply(c, r, errorHandler(err))
               /\ UNCHANGED appointments
          ELSE /\ appointments' = after
               /\ Reply(c, r, Response(200, ""))

----------------------------------------------------------------------------
(* GET /api/appointments : protect, getAll *)

\* the query built without the test on the user's role
getAllQuery_NoOwner(user, body) ==
  [patient |-> ABSENT, doctor |-> ABSENT, status |-> body.status,
   from |-> body.from, to |-> body.to]

\* let query = {} ... as the handler fills it; a path the query does not
\* name is ABSENT (0 for the two instants)
getAllQuery(user, body) ==
  [patient |-> IF Role(user) = "patient" THEN user ELSE ABSENT,
   doctor |-> IF Role(user) = "doctor" THEN DoctorOf(user) ELSE ABSENT,
   status |-> body.status,
   from |-> body.from,
   to |-> body.to]

\* the ids of the documents Appointment.find(query) matches
Find(apps, q) ==
  {i \in Ids(apps) :
     /\ q.patient # ABSENT => apps[i].patient = q.patient
     /\ q.doctor # ABSENT => apps[i].doctor = q.doctor
     /\ q.status # ABSENT => apps[i].status = q.status
     /\ q.from # 0 => apps[i].dateTime >= q.from
     /\ q.to # 0 => apps[i].dateTime <= q.to}

RECURSIVE Orders(_)
\* the sequences that hold every element of S once
Orders(S) ==
  IF S = {} THEN {<<>>}
  ELSE UNION {{<<x>> \o q : q \in Orders(S \ {x})} : x \in S}

\* .sort('-dateTime') : latest first, documents of one instant in any order
SortByDateDesc(apps, S) ==
  {q \in Orders(S) :
     \A m, n \in 1..Len(q) : m < n => apps[q[m]].dateTime >= apps[q[n]].dateTime}

\* .skip((page - 1) * limit).limit(limit)
Page(q, page, limit) ==
  LET first == (page - 1) * limit + 1
      last == IF page * limit < Len(q) THEN page * limit ELSE Len(q)
  IN IF first > last THEN <<>> ELSE SubSeq(q, first, last)

\* the handler: its answer holds the ids of the documents found
getAll(c, user, body) ==
  /\ req[c].pc = "idle"
  /\ UNCHANGED <<now, doctors, appointments, slotOut, users>>
  /\ LET r == Request("getAll", user, 0, body, now)
     IN IF Role(user) = "doctor" /\ DoctorOf(user) = "none"
          THEN Reply(c, r, Response(404, "Doctor profile not found"))
          ELSE \E q \in SortByDateDesc(appointments,
                                       Find(appointments, getAllQuery(user, body))) :
                 req' = [req EXCEPT ![c] =
                           [r EXCEPT !.pc = "replied", !.status = 200,
                                     !.data = Page(q, body.page, body.limit)]]

----------------------------------------------------------------------------
(* Doctor profile: PUT /api/doctors/profile and /availability *)

\* findOneAndUpdate validators of the Doctor paths the two handlers set
ValidDoctorUpdates(u) ==
  /\ ("consultationFee" \in DOMAIN u => u.consultationFee >= 0)
  /\ ("slotDuration" \in DOMAIN u => u.slotDuration \in SlotDurationEnum)

\* { ...doc, ...updates }
Merge(doc, u) == [f \in DOMAIN doc |-> IF f \in DOMAIN u THEN u[f] ELSE doc[f]]

\* the handler writing a new fee through to the doctor's appointments as well
updateProfile_PropagatesFee(user, body) ==
  /\ Role(user) = "doctor"
  /\ DoctorOf(user) \in Doctors
  /\ LET allowed == {"consultationFee", "acceptingNewPatients"}
         u == [f \in DOMAIN body \cap allowed |-> body[f]]
         ok == ValidDoctorUpdates(u)
     IN /\ doctors' = IF ok THEN [doctors EXCEPT ![DoctorOf(user)] = Merge(@, u)]
                       ELSE doctors
        /\ appointments' =
              [i \in Ids(appointments) |->
                 IF ok /\ "consultationFee" \in DOMAIN u
                       /\ appointments[i].doctor = DoctorOf(user)
                   THEN [appointments[i] EXCEPT !.feeAmount = u.consultationFee]
                   ELSE appointments[i]]
  /\ UNCHANGED <<now, req, slotOut, users>>

\* authorize('doctor'), the allowed fields of the body, findOneAndUpdate({ user })
updateProfile(user, body) ==
  /\ Role(user) = "doctor"
  /\ DoctorOf(user) \in Doctors
  /\ LET allowed == {"consultationFee", "acceptingNewPatients"}
         u == [f \in DOMAIN body \cap allowed |-> body[f]]
     IN doctors' = IF ValidDoctorUpdates(u)
                     THEN [doctors EXCEPT ![DoctorOf(user)] = Merge(@, u)]
                     ELSE doctors
  /\ UNCHANGED <<now, appointments, req, slotOut, users>>

\* the handler recomputing endTime of the doctor's appointments from a new duration
updateAvailability_RecomputesEndTime(user, body) ==
  /\ Role(user) = "doctor"
  /\ DoctorOf(user) \in Doctors
  /\ LET set == {f \in DOMAIN body \cap {"availability", "slotDuration"} :
                    f = "slotDuration" => body[f] # 0}
         u == [f \in set |-> body[f]]
         ok == ValidDoctorUpdates(u)
     IN /\ doctors' = IF ok THEN [doctors EXCEPT ![DoctorOf(user)] = Merge(@, u)]
                       ELSE doctors
        /\ appointments' =
              [i \in Ids(appointments) |->
                 IF ok /\ "slotDuration" \in DOMAIN u
                       /\ appointments[i].doctor = DoctorOf(user)
                   THEN [appointments[i] EXCEPT
                            !.endTime = appointments[i].dateTime + u.slotDuration]
                   ELSE appointments[i]]
  /\ UNCHANGED <<now, req, slotOut, users>>

\* if (availability) ... if (slotDuration) ..., findOneAndUpdate({ user })
updateAvailability(user, body) ==
  /\ Role(user) = "doctor"
  /\ DoctorOf(user) \in Doctors
  /\ LET set == {f \in DOMAIN body \cap {"availability", "slotDuration"} :
                    f = "slotDuration" => body[f] # 0}
         u == [f \in set |-> body[f]]
     IN doctors' = IF ValidDoctorUpdates(u)
                     THEN [doctors EXCEPT ![DoctorOf(user)] = Merge(@, u)]
                     ELSE doctors
  /\ UNCHANGED <<now, appointments, req, slotOut, users>>

----------------------------------------------------------------------------
(* GET /api/doctors/:id/slots *)

\* minutes of one day; instants are minutes since midnight of day 0
DayMinutes == 1440
\* getDay() of day 0 (a Monday)
Day0Weekday == 1

getDay(day) == (Day0Weekday + day) % 7

\* "HH:MM".split(':').map(Number), then setHours(h, m, 0, 0) on the date
setHours(day, hm) == day * DayMinutes + hm[1] * 60 + hm[2]

\* availability.find(a => a.dayOfWeek === dayOfWeek && a.isAvailable): 0 for undefined
FindDay(availability, dayOfWeek) ==
  LET hits == {i \in 1..Len(availability) :
                 availability[i].dayOfWeek = dayOfWeek /\ availability[i].isAvailable}
  IN IF hits = {} THEN 0 ELSE CHOOSE i \in hits : \A j \in hits : i <= j

\* while (current < endTime) { slots.push(current); current += slotDuration }
RECURSIVE SlotLoop(_, _, _, _)
SlotLoop(current, endTime, slotDuration, slots) ==
  IF current < endTime
    THEN SlotLoop(current + slotDuration, endTime, slotDuration, Append(slots, current))
    ELSE slots

\* the candidates built from the weekday's first window, enabled or not
generateSlots_AnyWindow(doctor, day) ==
  LET hits == {i \in 1..Len(doctor.availability) :
                 doctor.availability[i].dayOfWeek = getDay(day)}
      k == IF hits = {} THEN 0 ELSE CHOOSE i \in hits : \A j \in hits : i <= j
  IN IF k = 0 THEN <<>>
     ELSE SlotLoop(setHours(day, doctor.availability[k].startTime),
                   setHours(day, doctor.availability[k].endTime),
                   doctor.slotDuration, <<>>)

\* the candidate start times of one date: the handler up to its while loop
generateSlots(doctor, day) ==
  LET k == FindDay(doctor.availability, getDay(day))
  IN IF k = 0 THEN <<>>
     ELSE SlotLoop(setHours(day, doctor.availability[k].startTime),
                   setHours(day, doctor.availability[k].endTime),
                   doctor.slotDuration, <<>>)

\* the query asking for the open statuses only
bookedTimes_OpenOnly(apps, doctorId, day) ==
  {apps[i].dateTime : i \in {j \in Ids(apps) :
       /\ apps[j].doctor = doctorId
       /\ apps[j].dateTime >= day * DayMinutes
       /\ apps[j].dateTime < (day + 1) * DayMinutes
       /\ apps[j].status \in {"pending", "confirmed"}}}

\* dateTime of the doctor's non-cancelled appointments of that date
bookedTimes(apps, doctorId, day) ==
  {apps[i].dateTime : i \in {j \in Ids(apps) :
       /\ apps[j].doctor = doctorId
       /\ apps[j].dateTime >= day * DayMinutes
       /\ apps[j].dateTime < (day + 1) * DayMinutes
       /\ apps[j].status \notin {"cancelled"}}}

\* the filter keeping the slot that starts at the current instant
filterAvailable_KeepsNow(slots, booked, t) ==
  SelectSeq(slots, LAMBDA s : s \notin booked /\ s >= t)

\* slots.filter(slot => !bookedTimes.includes(slot) && slot > new Date())
filterAvailable(slots, booked, t) ==
  SelectSeq(slots, LAMBDA s : s \notin booked /\ s > t)

NoDoctor == [acceptingNewPatients |-> FALSE, consultationFee |-> 0,
             slotDuration |-> 0, availability |-> <<>>]

NoSlots == [status |-> 0, id |-> "none", day |-> 0, at |-> 0, doctor |-> NoDoctor,
            slots |-> <<>>, data |-> <<>>]

\* the handler's answer, with the doctor document it read, the instant it
\* compared with and the candidates it built
getSlots(doctorId, day) ==
  /\ slotOut' =
       IF doctorId \notin Doctors
         THEN [NoSlots EXCEPT !.status = 404, !.id = doctorId, !.day = day, !.at = now]
         ELSE LET slots == generateSlots(doctors[doctorId], day)
              IN [status |-> 200, id |-> doctorId, day |-> day, at |-> now,
                  doctor |-> doctors[doctorId], slots |-> slots,
                  data |-> filterAvailable(slots,
                              bookedTimes(appointments, doctorId, day), now)]
  /\ UNCHANGED <<now, doctors, appointments, req, users>>

----------------------------------------------------------------------------
(* POST /api/auth/register: exports.register.  The handler awaits the e-mail
   lookup, the licence lookup (doctors only), User.create and Doctor.create
   (doctors only); each await is a step, and nothing undoes an earlier one *)

\* the specialization enum of the Doctor schema
Specializations ==
  {"general-practice", "cardiology", "dermatology", "neurology", "orthopedics",
   "pediatrics", "psychiatry", "gynecology", "ophthalmology", "ent",
   "dentistry", "other"}

\* the _id of the Doctor document created for the user with _id i
RegisteredIds == <<"r1", "r2">>

ProfileId(i) == RegisteredIds[i]

\* a registration body: the fields of doctorInfo are ABSENT (the fee 0) when
\* they are not sent; the names and the e-mail format are taken as valid
RegisterBody(email, passwordLength, role, specialization, licenseNumber, fee) ==
  [email |-> email, passwordLength |-> passwordLength, role |-> role,
   specialization |-> specialization, licenseNumber |-> licenseNumber,
   consultationFee |-> fee]

\* step 1: the messages the handler collects before it touches the database
RegisterErrors(body) ==
  (IF body.role \notin {"patient", "doctor"}
     THEN {"Role must be \"patient\" or \"doctor\""} ELSE {})
  \cup (IF body.passwordLength < 8
          THEN {"Password must be at least 8 characters"} ELSE {})
  \cup (IF body.role = "doctor" /\ body.specialization = ABSENT
          THEN {"Doctor specialization is required"} ELSE {})
  \cup (IF body.role = "doctor" /\ body.licenseNumber = ABSENT
          THEN {"Doctor license number is required"} ELSE {})
  \cup (IF body.role = "doctor" /\ body.consultationFee <= 0
          THEN {"Valid consultation fee is required (must be a positive number)"}
          ELSE {})

\* User.findOne({ email })
EmailTaken(email) == \E i \in 1..Len(users) : users[i].email = email

\* Doctor.findOne({ licenseNumber }); the licences of the two initial doctors
\* differ from every licence a registration sends
LicenseTaken(licenseNumber) ==
  \E d \in DOMAIN doctors \ Doctors : doctors[d].licenseNumber = licenseNumber

\* steps 1 and 2: validation, then the e-mail lookup
RegisterFindEmail(c, body) ==
  /\ req[c].pc = "idle"
  /\ LET r == Request("register", "none", 0, body, now) IN
       IF RegisterErrors(body) # {}
         THEN Reply(c, r, [status |-> 400, error |-> "Validation failed"])
       ELSE IF EmailTaken(body.email)
         THEN Reply(c, r, [status |-> 400, error |-> "Email already registered"])
       ELSE req' = [req EXCEPT ![c] =
                      [r EXCEPT !.pc = IF body.role = "doctor"
                                         THEN "findLicense" ELSE "createUser"]]
  /\ UNCHANGED <<now, doctors, appointments, slotOut, users>>

\* step 3: the licence lookup of a doctor's registration
RegisterFindLicense(c) ==
  /\ req[c].pc = "findLicense"
  /\ LET r == req[c] IN
       IF LicenseTaken(r.body.licenseNumber)
         THEN Reply(c, r, [status |-> 400,
                           error |-> "License number already registered"])
         ELSE req' = [req EXCEPT ![c] = [r EXCEPT !.pc = "createUser"]]
  /\ UNCHANGED <<now, doctors, appointments, slotOut, users>>

\* the document User.create stores
NewUser(body) ==
  [email |-> body.email,
   role |-> IF body.role = "doctor" THEN "doctor" ELSE "patient"]

\* step 4: User.create; the unique index on email refuses a second account
\* (code 11000, answered 400 by the catch).  A patient is answered 201 here
RegisterCreateUser(c) ==
  /\ req[c].pc = "createUser"
  /\ LET r == req[c] IN
       IF EmailTaken(r.body.email)
         THEN /\ Reply(c, r, [status |-> 400, error |-> "Email already exists"])
              /\ UNCHANGED users
       ELSE /\ users' = Append(users, NewUser(r.body))
            /\ IF r.body.role = "doctor"
                 THEN req' = [req EXCEPT ![c] =
                                [r EXCEPT !.pc = "createDoctor",
                                          !.id = Len(users) + 1]]
                 ELSE Reply(c, [r EXCEPT !.id = Len(users) + 1],
                            [status |-> 201, error |-> ""])
  /\ UNCHANGED <<now, doctors, appointments, slotOut>>

\* the document Doctor.create is given, with the schema defaults
NewDoctor(userId, body) ==
  [user |-> userId, specialization |-> body.specialization,
   licenseNumber |-> body.licenseNumber,
   consultationFee |-> body.consultationFee,
   acceptingNewPatients |-> TRUE, slotDuration |-> DefaultSlotDuration,
   availability |-> <<>>]

\* the validators of the Doctor schema on the fields register sets
ValidNewDoctor(doc) ==
  /\ doc.specialization \in Specializations
  /\ doc.licenseNumber # ABSENT
  /\ doc.consultationFee >= 0

\* step 5: Doctor.create; a ValidationError is answered 400 by the catch and
\* the User document of step 4 stays
RegisterCreateDoctor(c) ==
  /\ req[c].pc = "createDoctor"
  /\ LET r == req[c]
         doc == NewDoctor(r.id, r.body) IN
       IF ValidNewDoctor(doc)
         THEN /\ doctors' = doctors @@ (ProfileId(r.id) :> doc)
              /\ Reply(c, r, [status |-> 201, error |-> ""])
         ELSE /\ Reply(c, r, [status |-> 400, error |-> "Validation error"])
              /\ UNCHANGED doctors
  /\ UNCHANGED <<now, appointments, slotOut, users>>

----------------------------------------------------------------------------
(* The clock *)

Tick ==
  /\ now < MaxNow
  /\ now' = now + ClockStep
  /\ UNCHANGED <<doctors, appointments, req, slotOut, users>>

----------------------------------------------------------------------------
(* The initial state: two registered doctors with the schema defaults, no
   appointment, no request in flight *)

InitialFee == 50

InitDoctor == [acceptingNewPatients |-> TRUE, consultationFee |-> InitialFee,
               slotDuration |-> DefaultSlotDuration, availability |-> <<>>]


Init ==
  /\ now = StartNow
  /\ doctors = [d \in Doctors |-> InitDoctor]
  /\ appointments = <<>>
  /\ req = [c \in Clients |-> Idle]
  /\ slotOut = NoSlots
  /\ users = <<>>

----------------------------------------------------------------------------

----------------------------------------------------------------------------
(* Spec: bookings, status updates and cancellations of two clients interleaved
   at every await *)

\* The request bodies of every specification are elements of constant sets,
\* written with their fields in the order the model checker keeps them, so
\* that all its workers read the same, already normalised, values
CreateBody(doctorId, dateTime, reason) ==
  [doctorId |-> doctorId, dateTime |-> dateTime, reason |-> reason,
   type |-> ABSENT, notes |-> ABSENT]

UpdateBody(status) ==
  [status |-> status, reason |-> ABSENT, prescription |-> ABSENT, notes |-> ABSENT]

\* two instants of one doctor and one instant shared by two doctors
LifeSlots == {<<"d1", 540>>, <<"d1", 555>>, <<"d2", 540>>}

Next ==
  \/ \E c \in Clients, body \in {CreateBody(k[1], k[2], "checkup") : k \in LifeSlots} :
        CreateFindDoctor(c, "p1", body)
  \/ \E c \in Clients : CreateCheckSlot(c)
  \/ \E c \in Clients : CreateInsert(c)
  \/ \E c \in Clients, u \in {"p1", "ud1", "ud2"}, id \in 1..MaxAppts,
        body \in {UpdateBody(st) : st \in {"pending", "confirmed", "cancelled"}} :
        Update(c, u, id, body)
  \/ \E c \in Clients, u \in {"p1", "ud1"}, id \in 1..MaxAppts :
        RemoveFind(c, u, id, ABSENT)
  \/ \E c \in Clients : RemoveSave(c)
  \/ \E c \in Clients : Receive(c)

Spec == Init /\ [][Next]_vars

----------------------------------------------------------------------------
(* SpecStatus: one client at a time asks for every status, as every actor *)

NextStatus ==
  \/ \E body \in {CreateBody(d, 540, "checkup") : d \in Doctors} :
        CreateFindDoctor("c1", "p1", body)
  \/ CreateCheckSlot("c1")
  \/ CreateInsert("c1")
  \/ \E u \in Users, id \in 1..MaxAppts,
        body \in {UpdateBody(st) : st \in StatusEnum \cup {ABSENT, "bogus"}} :
        Update("c1", u, id, body)
  \/ \E u \in Users, id \in 1..MaxAppts : RemoveFind("c1", u, id, ABSENT)
  \/ RemoveSave("c1")
  \/ Receive("c1")

SpecStatus == Init /\ [][NextStatus]_vars

----------------------------------------------------------------------------
(* SpecCreate: bookings of two patients for existing and missing doctors, with
   and without a reason, while doctors open and close their lists, patients
   cancel, and time passes *)

NextCreate ==
  \/ \E c \in Clients, u \in Patients \cup {"ud1"},
        body \in {CreateBody(d, 540, r) : d \in DoctorIds, r \in {ABSENT, "checkup"}} :
        CreateFindDoctor(c, u, body)
  \/ \E c \in Clients : CreateCheckSlot(c)
  \/ \E c \in Clients : CreateInsert(c)
  \/ \E c \in Clients, u \in Patients, id \in 1..MaxAppts :
        Update(c, u, id, UpdateBody("cancelled"))
  \/ \E u \in DoctorUsers, body \in {[acceptingNewPatients |-> f] : f \in BOOLEAN} :
        updateProfile(u, body)
  \/ Tick
  \/ \E c \in Clients : Receive(c)

SpecCreate == Init /\ [][NextCreate]_vars

----------------------------------------------------------------------------
(* SpecRace: two create calls for one slot, the second arriving before the
   first is answered *)

RaceStart(c, user, body) ==
  /\ \A o \in Clients : req[o].pc # "replied"
  /\ \A o \in Clients \ {c} :
        req[o].pc # "idle" => /\ req[o].body.doctorId = body.doctorId
                               /\ req[o].body.dateTime = body.dateTime
  /\ CreateFindDoctor(c, user, body)

NextRace ==
  \/ \E c \in Clients, u \in Patients,
        body \in {CreateBody(d, t, "checkup") : d \in Doctors, t \in BookTimes} :
        RaceStart(c, u, body)
  \/ \E c \in Clients : CreateCheckSlot(c)
  \/ \E c \in Clients : CreateInsert(c)
  \/ Tick

SpecRace == Init /\ [][NextRace]_vars

----------------------------------------------------------------------------
(* SpecSlots: a doctor edits the weekly template and the slot duration, and
   the slots of a date are listed *)

Window(dayOfWeek, startTime, endTime, isAvailable) ==
  [endTime |-> endTime, dayOfWeek |-> dayOfWeek, isAvailable |-> isAvailable,
   startTime |-> startTime]

SlotTimes == {<<9, 0>>, <<10, 0>>, <<10, 15>>}

NextSlots ==
  \/ \E body \in {[availability |-> <<Window(Day0Weekday, st, en, e)>>] :
                      st \in SlotTimes, en \in SlotTimes, e \in BOOLEAN} :
        updateAvailability("ud1", body)
  \/ \E body \in {[slotDuration |-> sd] : sd \in {0, 20} \cup SlotDurationEnum} :
        updateAvailability("ud1", body)
  \/ \E d \in DoctorIds, day \in {0, 1} : getSlots(d, day)
  \/ Tick

SpecSlots == Init /\ [][NextSlots]_vars

----------------------------------------------------------------------------
(* SpecBooked: the slots of a doctor are listed while a patient books them,
   the doctor sets their status, and time passes *)

\* window starts on the hour and at the instant the clock reaches (09:05)
BookedStarts == {<<9, 0>>, <<9, 5>>}

NextBooked ==
  \/ \E body \in {[availability |-> <<Window(Day0Weekday, st, <<10, 0>>, TRUE)>>] :
                      st \in BookedStarts} :
        updateAvailability("ud1", body)
  \/ updateAvailability("ud1", [slotDuration |-> 15])
  \/ \E body \in {CreateBody("d1", t, "checkup") : t \in BookTimes} :
        CreateFindDoctor("c1", "p1", body)
  \/ CreateCheckSlot("c1")
  \/ CreateInsert("c1")
  \/ \E id \in 1..MaxAppts, body \in {UpdateBody(st) : st \in StatusEnum} :
        Update("c1", "ud1", id, body)
  \/ Receive("c1")
  \/ \E d \in Doctors, day \in {0, 1} : getSlots(d, day)
  \/ Tick

SpecBooked == Init /\ [][NextBooked]_vars

----------------------------------------------------------------------------
(* SpecUpdate: every actor sends updates with and without a status, notes, a
   prescription and a reason, and cancels with and without a reason, for the
   one appointment there is and for an id no appointment has *)

SentStatus == {ABSENT, "confirmed", "cancelled", "no-show"}

\* a booking made while the collection is empty
FirstBooking(c, user, body) ==
  /\ Len(appointments) = 0
  /\ CreateFindDoctor(c, user, body)

NextUpdate ==
  \/ \E body \in {CreateBody(d, 540, "checkup") : d \in Doctors} :
        FirstBooking("c1", "p1", body)
  \/ CreateCheckSlot("c1")
  \/ CreateInsert("c1")
  \/ \E u \in Users, id \in 1..MaxAppts,
        body \in {[status |-> st, reason |-> rs, prescription |-> rx, notes |-> n] :
                    st \in SentStatus, n \in {ABSENT, "note"},
                    rx \in {ABSENT, "rx"}, rs \in {ABSENT, "why"}} :
        Update("c1", u, id, body)
  \/ \E u \in Users, id \in 1..MaxAppts, rs \in {ABSENT, "why"} :
        RemoveFind("c1", u, id, rs)
  \/ RemoveSave("c1")
  \/ Receive("c1")

SpecUpdate == Init /\ [][NextUpdate]_vars

----------------------------------------------------------------------------
(* SpecList: patients book, doctors confirm and cancel, and every user lists
   the appointments with and without filters *)

ListBody(status, from, to, page, limit) ==
  [status |-> status, from |-> from, to |-> to, page |-> page, limit |-> limit]

NextList ==
  \/ \E p \in Patients,
        body \in {CreateBody(d, t, "checkup") : d \in Doctors, t \in BookTimes} :
        CreateFindDoctor("c1", p, body)
  \/ CreateCheckSlot("c1")
  \/ CreateInsert("c1")
  \/ \E u \in DoctorUsers, id \in 1..MaxAppts,
        body \in {UpdateBody(st) : st \in {"confirmed", "cancelled"}} :
        Update("c1", u, id, body)
  \/ \E u \in Users,
        body \in {ListBody(st, from, to, page, limit) :
                    st \in {ABSENT, "pending", "confirmed", "bogus"},
                    from \in {0, 555}, to \in {0, 540},
                    page \in {1, 2}, limit \in {1, 10}} :
        getAll("c1", u, body)
  \/ Receive("c1")

SpecList == Init /\ [][NextList]_vars

----------------------------------------------------------------------------
(* SpecProbe: isSlotAvailable and getSlots are called, by two callers, between
   the writes of bookings and status updates; no write happens while a caller
   holds the result of a check *)

\* no caller holds the result of an isSlotAvailable call
Quiet == \A c \in Clients : req[c].op # "isSlotAvailable"

NextProbe ==
  \/ \E body \in {CreateBody(d, 540, "checkup") : d \in Doctors} :
        CreateFindDoctor("c1", "p1", body)
  \/ CreateCheckSlot("c1")
  \/ Quiet /\ CreateInsert("c1")
  \/ /\ Quiet
     /\ \E u \in DoctorUsers, id \in 1..MaxAppts,
           body \in {UpdateBody(st) : st \in {"completed", "cancelled"}} :
           Update("c1", u, id, body)
  \/ \E c \in Clients, d \in DoctorIds, t \in BookTimes, x \in 0..MaxAppts :
        CallIsSlotAvailable(c, d, t, x)
  \/ updateAvailability("ud1",
        [availability |-> <<Window(Day0Weekday, <<9, 0>>, <<10, 0>>, TRUE)>>])
  \/ getSlots("d1", 0)
  \/ \E c \in Clients : Receive(c)

SpecProbe == Init /\ [][NextProbe]_vars

----------------------------------------------------------------------------
(* SpecDuration: bookings of one doctor's slots by two clients while the
   doctor changes the slot duration *)

\* the slot durations the doctor sends, one of them refused by the validators
SentDurations == {15, 20, 45}

NextDuration ==
  \/ \E c \in Clients, body \in {CreateBody("d1", t, "checkup") : t \in BookTimes} :
        CreateFindDoctor(c, "p1", body)
  \/ \E c \in Clients : CreateCheckSlot(c)
  \/ \E c \in Clients : CreateInsert(c)
  \/ \E body \in {[slotDuration |-> sd] : sd \in SentDurations} :
        updateAvailability("ud1", body)
  \/ \E c \in Clients, id \in 1..MaxAppts :
        Update(c, "p1", id, UpdateBody("cancelled"))
  \/ \E c \in Clients : Receive(c)

SpecDuration == Init /\ [][NextDuration]_vars

----------------------------------------------------------------------------
(* SpecFee: bookings of one slot by two clients while the doctor changes the
   fee and the appointments are confirmed, cancelled and removed *)

\* the fees the doctor sends, one of them refused by the validators
SentFees == {-1, 80}

NextFee ==
  \/ \E c \in Clients : CreateFindDoctor(c, "p1", CreateBody("d1", 540, "checkup"))
  \/ \E c \in Clients : CreateCheckSlot(c)
  \/ \E c \in Clients : CreateInsert(c)
  \/ \E body \in {[consultationFee |-> f] : f \in SentFees} :
        updateProfile("ud1", body)
  \/ \E c \in Clients, u \in {"p1", "ud1"}, id \in 1..MaxAppts,
        body \in {UpdateBody(st) : st \in {"confirmed", "cancelled"}} :
        Update(c, u, id, body)
  \/ \E c \in Clients, id \in 1..MaxAppts : RemoveFind(c, "p1", id, ABSENT)
  \/ \E c \in Clients : RemoveSave(c)
  \/ \E c \in Clients : Receive(c)

SpecFee == Init /\ [][NextFee]_vars

----------------------------------------------------------------------------
(* SpecRegister: registrations of patients and doctors by two clients,
   interleaved at every await *)

RegEmails == {"a@x.io", "b@x.io"}

\* the bodies sent: a role outside the two allowed, a short password, a
\* specialization outside the enum, a missing licence and a fee of 0 among them
RegisterBodies ==
  {RegisterBody(e, 8, ro, sp, li, 50) :
     e \in RegEmails, ro \in {"patient", "doctor"},
     sp \in {ABSENT, "cardiology", "surgery"}, li \in {ABSENT, "L1"}}
  \cup {RegisterBody("a@x.io", 8, "admin", ABSENT, ABSENT, 0),
        RegisterBody("a@x.io", 5, "patient", ABSENT, ABSENT, 0),
        RegisterBody("a@x.io", 8, "doctor", "cardiology", "L1", 0)}

NextRegister ==
  \/ \E c \in Clients, body \in RegisterBodies : RegisterFindEmail(c, body)
  \/ \E c \in Clients : RegisterFindLicense(c)
  \/ \E c \in Clients : RegisterCreateUser(c)
  \/ \E c \in Clients : RegisterCreateDoctor(c)
  \/ \E c \in Clients : Receive(c)

SpecRegister == Init /\ [][NextRegister]_vars

----------------------------------------------------------------------------
(* Properties *)

\* the non-cancelled appointments of apps at (doctor, dateTime)
ActiveAt(apps, d, t) ==
  {i \in 1..Len(apps) :
     apps[i].doctor = d /\ apps[i].dateTime = t /\ apps[i].status # "cancelled"}

Replied(c, op) == req[c].pc = "replied" /\ req[c].op = op

ConflictMsgs == {MsgSlotTaken, MsgDuplicate}

C3_SameConflictKind ==
  [][\A c \in Clients :
        ( /\ req[c].pc \in {"doctor", "checked"}
          /\ ActiveAt(appointments, req[c].body.doctorId, req[c].body.dateTime) # {}
          /\ req'[c] # req[c] )
        => ( /\ req'[c].pc = "replied"
             /\ req'[c].status = 400
             /\ appointments' = appointments )]_vars

\* a conflict found by the index at insert time has been answered
C3_Witness ==
  \E c \in Clients :
     Replied(c, "create") /\ req[c].error = MsgDuplicate /\ req[c].status = 400

\* C4: a create call whose dateTime lies before the instant the call arrives
\* is answered with a status of 400 or more.
C4_PastRejected ==
  \A c \in Clients :
     (Replied(c, "create") /\ Role(req[c].user) = "patient"
        /\ req[c].body.dateTime < req[c].at)
     => req[c].status >= 400

\* C5: an appointment whose status is cancelled or completed keeps that
\* status in every later step.
C5_TerminalStays ==
  [][\A i \in 1..Len(appointments) :
        appointments[i].status \in {"cancelled", "completed"}
        => appointments'[i].status = appointments[i].status]_vars

\* the status steps of the lifecycle
Transitions ==
  {<<"pending", "confirmed">>, <<"pending", "cancelled">>,
   <<"confirmed", "completed">>, <<"confirmed", "cancelled">>}

\* C6: every change of an appointment's status is a step of the state
\* machine pending -> {confirmed, cancelled}, confirmed -> {completed, cancelled}.
C6_StateMachine ==
  [][\A i \in 1..Len(appointments) :
        appointments'[i].status # appointments[i].status
        => <<appointments[i].status, appointments'[i].status>> \in Transitions]_vars

\* "HH:MM" as minutes of the day
Clock(hm) == hm[1] * 60 + hm[2]

\* C7: for an enabled window [start, end) the candidates of getSlots are the
\* floor((end - start) / S) instants start, start + S, ..., none of them
\* ending after end.
C7_WholeSlotsOnly ==
  \A k \in 1..Len(slotOut.doctor.availability) :
     LET w == slotOut.doctor.availability[k]
         S == slotOut.doctor.slotDuration
         start == slotOut.day * DayMinutes + Clock(w.startTime)
         end == slotOut.day * DayMinutes + Clock(w.endTime)
         first == \A j \in 1..(k - 1) :
                     ~ ( slotOut.doctor.availability[j].isAvailable
                         /\ slotOut.doctor.availability[j].dayOfWeek = w.dayOfWeek )
     IN (slotOut.status = 200 /\ w.isAvailable /\ first
           /\ w.dayOfWeek = getDay(slotOut.day) /\ start < end)
        => /\ Len(slotOut.slots) = (end - start) \div S
           /\ \A n \in 1..Len(slotOut.slots) :
                 /\ slotOut.slots[n] = start + (n - 1) * S
                 /\ slotOut.slots[n] + S <= end

\* the step in which the handler of c's create takes the request
CreateArrives(c) == req[c].pc = "idle" /\ req'[c].op = "create" /\ req'[c].pc # "idle"

\* C8: a create call for a doctor whose acceptingNewPatients is false is
\* answered 400 at once and adds no appointment, whether or not the slot is taken.
C8_NotAccepting ==
  [][\A c \in Clients :
        ( /\ CreateArrives(c)
          /\ Role(req'[c].user) = "patient"
          /\ req'[c].body.doctorId \in Doctors
          /\ ~doctors[req'[c].body.doctorId].acceptingNewPatients )
        => ( /\ req'[c].pc = "replied"
             /\ req'[c].status = 400
             /\ req'[c].error = MsgNotAccepting
             /\ appointments' = appointments )]_vars

\* a patient was refused by a doctor who is not accepting, for a slot that is taken
C8_Witness ==
  \E c \in Clients :
     /\ Replied(c, "create") /\ req[c].error = MsgNotAccepting
     /\ ActiveAt(appointments, req[c].body.doctorId, req[c].body.dateTime) # {}

\* C9: the pre-check of a create whose slot holds a non-cancelled appointment
\* answers 400 "Time slot is not available", and a create for a doctor id
\* without a document answers 404; neither changes the appointments.
C9_ConflictAndNotFound ==
  [][\A c \in Clients :
        /\ ( ( /\ req[c].pc = "doctor"
               /\ ActiveAt(appointments, req[c].body.doctorId,
                           req[c].body.dateTime) # {}
               /\ req'[c] # req[c] )
             => ( /\ req'[c].pc = "replied"
                  /\ req'[c].status = 400
                  /\ req'[c].error = MsgSlotTaken
                  /\ appointments' = appointments ) )
        /\ ( ( /\ CreateArrives(c)
               /\ Role(req'[c].user) = "patient"
               /\ req'[c].body.doctorId \notin Doctors )
             => ( /\ req'[c].pc = "replied"
                  /\ req'[c].status = 404
                  /\ appointments' = appointments ) )]_vars

\* a second patient asked for a slot another patient holds and was refused
C9_Witness ==
  \E c \in Clients, i \in 1..Len(appointments) :
     /\ Replied(c, "create") /\ req[c].error = MsgSlotTaken /\ req[c].status = 400
     /\ appointments[i].patient # req[c].user
     /\ appointments[i].status # "cancelled"
     /\ appointments[i].doctor = req[c].body.doctorId
     /\ appointments[i].dateTime = req[c].body.dateTime

\* the step in which c's create is answered
CreateAnswered(c) ==
  req[c].pc # "replied" /\ req'[c].pc = "replied" /\ req'[c].op = "create"

\* the document a successful create of request r leaves
FullRecord(a, r) ==
  /\ a.patient = r.user
  /\ a.doctor = r.body.doctorId
  /\ a.dateTime = r.body.dateTime
  /\ a.reason = r.body.reason /\ a.reason # ABSENT
  /\ a.status = "pending"
  /\ a.feeAmount = r.fee
  /\ a.endTime = a.dateTime + r.slotDuration
  /\ a.endTime > a.dateTime

\* C10: the answer of a create is 201 with exactly one appointment appended,
\* pending, with the fee and the slot duration the call read from the doctor,
\* or it is an error (always so without a reason) with the appointments
\* unchanged; the collection grows in no other step.
C10_AllOrNothing ==
  [][/\ \A c \in Clients :
          /\ CreateAnswered(c) =>
               IF req'[c].status = 201
                 THEN /\ req'[c].body.reason # ABSENT
                      /\ appointments' = Append(appointments, appointments'[Len(appointments')])
                      /\ FullRecord(appointments'[Len(appointments')], req[c])
                 ELSE req'[c].status >= 400 /\ appointments' = appointments
          /\ (req[c].pc = "idle" /\ req'[c].pc = "doctor") =>
               /\ req'[c].fee = doctors[req'[c].body.doctorId].consultationFee
               /\ req'[c].slotDuration = doctors[req'[c].body.doctorId].slotDuration
     /\ Len(appointments') # Len(appointments) =>
          \E c \in Clients : CreateAnswered(c) /\ req'[c].status = 201]_vars

\* one create was answered 201 and one without a reason was answered 400,
\* the only appointment being the one of the first
C10_Witness ==
  \E w, o \in Clients :
     /\ Replied(w, "create") /\ req[w].status = 201
     /\ Replied(o, "create") /\ req[o].body.reason = ABSENT
     /\ req[o].status = 400 /\ req[o].error = MsgValidation
     /\ Len(appointments) = 1

\* the cancelled appointments of apps at (doctor, dateTime)
CancelledAt(apps, d, t) ==
  {i \in 1..Len(apps) :
     apps[i].doctor = d /\ apps[i].dateTime = t /\ apps[i].status = "cancelled"}

\* C11: a create for a (doctor, dateTime) whose earlier appointment was
\* cancelled goes through every step of the handler and is answered 201 with
\* the new appointment stored, provided the doctor accepts patients when the
\* call arrives and no non-cancelled appointment holds the slot when the
\* pre-check and the insert run.
C11_CancelFreesSlot ==
  [][\A c \in Clients :
        LET d == IF req[c].pc = "idle" THEN req'[c].body.doctorId
                 ELSE req[c].body.doctorId
            t == IF req[c].pc = "idle" THEN req'[c].body.dateTime
                 ELSE req[c].body.dateTime
            freed == CancelledAt(appointments, d, t) # {}
                       /\ ActiveAt(appointments, d, t) = {}
        IN /\ ( /\ CreateArrives(c)
                /\ Role(req'[c].user) = "patient"
                /\ d \in Doctors
                /\ freed
                /\ doctors[d].acceptingNewPatients )
              => req'[c].pc = "doctor"
           /\ ( req[c].pc = "doctor" /\ freed /\ req'[c] # req[c] )
              => req'[c].pc = "checked"
           /\ ( /\ req[c].pc = "checked" /\ freed /\ req'[c] # req[c]
                /\ req[c].body.reason # ABSENT )
              => ( /\ req'[c].pc = "replied"
                   /\ req'[c].status = 201
                   /\ Len(appointments') = Len(appointments) + 1
                   /\ ActiveAt(appointments', d, t) = {Len(appointments')} )]_vars

\* an appointment cancelled by DELETE and a later appointment for the same
\* slot, whose create was answered 201
C11_Witness ==
  \E c \in Clients, i \in 1..Len(appointments) :
     /\ Replied(c, "create") /\ req[c].status = 201 /\ req[c].id > i
     /\ appointments[i].status = "cancelled"
     /\ appointments[i].cancellationReason = "Cancelled by user"
     /\ appointments[i].doctor = req[c].body.doctorId
     /\ appointments[i].dateTime = req[c].body.dateTime
     /\ appointments[req[c].id].status = "pending"

\* the step in which c's create reads the doctor and goes on
CreateReadsDoctor(c) == req[c].pc = "idle" /\ req'[c].pc = "doctor"

\* the step in which c's create stores its appointment
CreateStores(c) ==
  /\ req[c].pc = "checked" /\ req'[c].pc = "replied" /\ req'[c].status = 201
  /\ Len(appointments') = Len(appointments) + 1

\* C12: a stored appointment ends one slot duration after it starts, the slot
\* duration being the one the create call read from its doctor, and no later
\* step, a change of the doctor's slot duration included, changes the start
\* or the end of an existing appointment.
C12_EndTimeSnapshot ==
  [][/\ \A c \in Clients :
          /\ CreateReadsDoctor(c) =>
                req'[c].slotDuration = doctors[req'[c].body.doctorId].slotDuration
          /\ CreateStores(c) =>
                LET a == appointments'[Len(appointments')]
                IN /\ a.dateTime = req[c].body.dateTime
                   /\ a.endTime - a.dateTime = req[c].slotDuration
     /\ Len(appointments') > Len(appointments) => \E c \in Clients : CreateStores(c)
     /\ \A i \in 1..Len(appointments) :
          /\ appointments'[i].endTime = appointments[i].endTime
          /\ appointments'[i].dateTime = appointments[i].dateTime]_vars

\* an appointment booked with the default duration whose doctor now has another
C12_Witness ==
  \E i \in 1..Len(appointments) :
     /\ appointments[i].endTime - appointments[i].dateTime = DefaultSlotDuration
     /\ doctors[appointments[i].doctor].slotDuration = 45

\* C13: a stored appointment carries the consultation fee the create call read
\* from its doctor, and no later step (a change of the doctor's fee, an
\* update, a cancellation) changes the fee of an existing appointment.
C13_FeeSnapshot ==
  [][/\ \A c \in Clients :
          /\ CreateReadsDoctor(c) =>
                req'[c].fee = doctors[req'[c].body.doctorId].consultationFee
          /\ CreateStores(c) =>
                appointments'[Len(appointments')].feeAmount = req[c].fee
     /\ \A i \in 1..Len(appointments) :
          appointments'[i].feeAmount = appointments[i].feeAmount]_vars

\* a cancelled appointment still carries the fee of its booking, its doctor
\* asking another fee now
C13_Witness ==
  \E i \in 1..Len(appointments) :
     /\ appointments[i].feeAmount = InitialFee
     /\ appointments[i].status = "cancelled"
     /\ doctors[appointments[i].doctor].consultationFee = 80

\* the elements of a sequence
Range(q) == {q[n] : n \in 1..Len(q)}

\* the step in which getSlots gives a new answer for an existing doctor
SlotsAnswered == slotOut' # slotOut /\ slotOut'.status = 200

\* C14: the slots getSlots returns never include the dateTime of a pending,
\* confirmed, completed or no-show appointment of that doctor, and a candidate
\* in the future whose only appointments are cancelled is returned.
C14_BookedFiltered ==
  [][SlotsAnswered =>
       /\ \A i \in 1..Len(appointments) :
             ( /\ appointments[i].doctor = slotOut'.id
               /\ appointments[i].status \in
                     {"pending", "confirmed", "completed", "no-show"} )
             => appointments[i].dateTime \notin Range(slotOut'.data)
       /\ \A s \in Range(slotOut'.slots) :
             ( /\ CancelledAt(appointments, slotOut'.id, s) # {}
               /\ ActiveAt(appointments, slotOut'.id, s) = {}
               /\ s > now )
             => s \in Range(slotOut'.data)]_vars

\* the answer leaves out the slot of a no-show appointment and keeps the slot
\* of a cancelled one
C14_Witness ==
  \E i, j \in 1..Len(appointments) :
     /\ slotOut.status = 200 /\ slotOut.id = "d1"
     /\ appointments[i].doctor = "d1" /\ appointments[i].status = "no-show"
     /\ appointments[i].dateTime \in Range(slotOut.slots) \ Range(slotOut.data)
     /\ appointments[i].dateTime > slotOut.at
     /\ appointments[j].doctor = "d1" /\ appointments[j].status = "cancelled"
     /\ appointments[j].dateTime \in Range(slotOut.data)

\* C15: every slot getSlots returns starts after the instant of the call.
C15_FutureOnly ==
  [][SlotsAnswered =>
       /\ slotOut'.at = now
       /\ \A s \in Range(slotOut'.data) : s > now]_vars

\* the candidates held a free slot starting at the instant of the call; the
\* answer leaves it out and has a later one
C15_Witness ==
  /\ slotOut.status = 200
  /\ slotOut.data # <<>>
  /\ \E s \in Range(slotOut.slots) \ Range(slotOut.data) :
        s = slotOut.at /\ ActiveAt(appointments, slotOut.id, s) = {}
  /\ Len(appointments) = 0

\* the enabled windows of the answer's doctor for the weekday of its date
EnabledWindows ==
  {k \in 1..Len(slotOut.doctor.availability) :
     /\ slotOut.doctor.availability[k].isAvailable
     /\ slotOut.doctor.availability[k].dayOfWeek = getDay(slotOut.day)}

\* C16: for an existing doctor getSlots answers 200 with no candidate and no
\* slot when the weekday of the date has no enabled window, and when the
\* enabled window it uses starts at or after its end.
C16_EmptyWithoutError ==
  slotOut.id \in Doctors =>
    /\ slotOut.status = 200
    /\ EnabledWindows = {} => slotOut.slots = <<>> /\ slotOut.data = <<>>
    /\ \A k \in EnabledWindows :
          ( /\ \A j \in EnabledWindows : k <= j
            /\ Clock(slotOut.doctor.availability[k].startTime)
                  >= Clock(slotOut.doctor.availability[k].endTime) )
          => slotOut.slots = <<>> /\ slotOut.data = <<>>

\* an answer for a doctor whose enabled window of that weekday is inverted
C16_Witness ==
  /\ slotOut.status = 200 /\ slotOut.slots = <<>>
  /\ \E k \in EnabledWindows :
        Clock(slotOut.doctor.availability[k].startTime)
          > Clock(slotOut.doctor.availability[k].endTime)

\* the step in which the update handler takes c's request and answers it
UpdateAnswered(c) ==
  req[c].pc = "idle" /\ req'[c].pc = "replied" /\ req'[c].op = "update"

\* user u is the patient or the doctor of appointment a, or an admin
Authorized(a, u) ==
  \/ a.patient = u
  \/ DoctorOf(u) # "none" /\ DoctorOf(u) = a.doctor
  \/ u \in Admins

\* C17: an update of an existing appointment by a user who is not its
\* patient, not its doctor and not an admin is answered 403 and leaves the
\* appointments as they were.
C17_StrangerForbidden ==
  [][\A c \in Clients :
        ( /\ UpdateAnswered(c)
          /\ req'[c].id \in 1..Len(appointments)
          /\ ~Authorized(appointments[req'[c].id], req'[c].user) )
        => ( /\ req'[c].status = 403
             /\ appointments' = appointments )]_vars

\* another doctor asked to confirm the appointment and was refused
C17_Witness ==
  \E c \in Clients :
     /\ Replied(c, "update") /\ req[c].status = 403
     /\ req[c].user = "ud2" /\ req[c].body.status = "confirmed"
     /\ req[c].id \in 1..Len(appointments)
     /\ appointments[req[c].id].doctor = "d1"
     /\ appointments[req[c].id].status = "pending"

\* C18: an update by the appointment's patient changes no field but the
\* patient notes, the status, cancelledBy and cancellationReason; the last
\* three only when the request asks for cancelled, and the status then
\* becomes cancelled.
C18_PatientWrites ==
  [][\A c \in Clients :
        ( /\ UpdateAnswered(c)
          /\ req'[c].id \in 1..Len(appointments)
          /\ appointments[req'[c].id].patient = req'[c].user )
        => LET a == appointments[req'[c].id]
               b == appointments'[req'[c].id]
               body == req'[c].body
           IN /\ Len(appointments') = Len(appointments)
              /\ \A j \in 1..Len(appointments) :
                    j # req'[c].id => appointments'[j] = appointments[j]
              /\ b = [a EXCEPT !.notesPatient = b.notesPatient, !.status = b.status,
                               !.cancelledBy = b.cancelledBy,
                               !.cancellationReason = b.cancellationReason]
              /\ b.notesPatient \in {a.notesPatient, body.notes}
              /\ b.status \in {a.status, "cancelled"}
              /\ body.status # "cancelled" =>
                    /\ b.status = a.status
                    /\ b.cancelledBy = a.cancelledBy
                    /\ b.cancellationReason = a.cancellationReason]_vars

\* the patient sent notes, a status and a prescription: the notes were stored,
\* the status and the prescription were not
C18_Witness ==
  \E c \in Clients :
     /\ Replied(c, "update") /\ req[c].status = 200
     /\ req[c].id \in 1..Len(appointments)
     /\ appointments[req[c].id].patient = req[c].user
     /\ req[c].body.status = "confirmed"
     /\ req[c].body.prescription = "rx"
     /\ req[c].body.notes = "note"
     /\ appointments[req[c].id].status = "pending"
     /\ appointments[req[c].id].notesPatient = "note"
     /\ appointments[req[c].id].prescription = NULL
     /\ appointments[req[c].id].notesDoctor = NULL

\* C19: an update in which the appointment's patient asks for a status other
\* than cancelled, or sends a prescription, is answered 403.
C19_ForbiddenFields ==
  \A c \in Clients :
     ( /\ Replied(c, "update")
       /\ req[c].id \in 1..Len(appointments)
       /\ appointments[req[c].id].patient = req[c].user
       /\ \/ req[c].body.status \notin {ABSENT, "cancelled"}
          \/ req[c].body.prescription # ABSENT )
     => req[c].status = 403

\* C20: an update asking for cancelled by the appointment's patient, its
\* doctor or an admin is answered 200 and leaves the appointment cancelled,
\* with cancelledBy the actor's role and cancellationReason the reason sent.
C20_CancelSucceeds ==
  \A c \in Clients :
     ( /\ Replied(c, "update")
       /\ req[c].id \in 1..Len(appointments)
       /\ req[c].body.status = "cancelled"
       /\ Authorized(appointments[req[c].id], req[c].user) )
     => ( /\ req[c].status = 200
          /\ appointments[req[c].id].status = "cancelled"
          /\ appointments[req[c].id].cancelledBy = Role(req[c].user)
          /\ appointments[req[c].id].cancellationReason = req[c].body.reason )

\* the step in which the remove handler takes c's request
RemoveArrives(c) ==
  req[c].pc = "idle" /\ req'[c].op = "remove" /\ req'[c].pc # "idle"

\* the step in which the remove handler's save answers c's request
RemoveSaved(c) == req[c].pc = "loaded" /\ req'[c].pc = "replied"

\* C21: a DELETE of an existing appointment by a user who is neither its
\* patient nor an admin is answered 403 with the appointments unchanged; by
\* its patient or an admin it is answered 200 and leaves the appointment
\* cancelled, cancelledBy patient, cancellationReason the reason given or the
\* default text.
C21_DeleteContract ==
  [][\A c \in Clients :
        /\ ( /\ RemoveArrives(c)
             /\ req'[c].id \in 1..Len(appointments)
             /\ appointments[req'[c].id].patient # req'[c].user
             /\ req'[c].user \notin Admins )
           => ( /\ req'[c].pc = "replied"
                /\ req'[c].status = 403
                /\ appointments' = appointments )
        /\ ( /\ RemoveArrives(c)
             /\ req'[c].id \in 1..Len(appointments)
             /\ \/ appointments[req'[c].id].patient = req'[c].user
                \/ req'[c].user \in Admins )
           => req'[c].pc = "loaded"
        /\ RemoveSaved(c)
           => ( /\ req'[c].status = 200
                /\ appointments'[req[c].id].status = "cancelled"
                /\ appointments'[req[c].id].cancelledBy = "patient"
                /\ appointments'[req[c].id].cancellationReason =
                      IF req[c].body.reason = ABSENT THEN "Cancelled by user"
                      ELSE req[c].body.reason )]_vars

\* C22: no step removes an appointment: the collection never shrinks and
\* the record at every id stays the record that was created there (its
\* reason, type, fee and end are the ones of its creation).
C22_NeverDeleted ==
  [][/\ Len(appointments') >= Len(appointments)
     /\ \A i \in 1..Len(appointments) :
          /\ appointments'[i].reason = appointments[i].reason
          /\ appointments'[i].type = appointments[i].type
          /\ appointments'[i].feeAmount = appointments[i].feeAmount
          /\ appointments'[i].endTime = appointments[i].endTime]_vars

\* a DELETE was answered 200 and the appointment is still there, cancelled
C22_Witness ==
  \E c \in Clients :
     /\ Replied(c, "remove") /\ req[c].status = 200
     /\ req[c].id \in 1..Len(appointments)
     /\ appointments[req[c].id].status = "cancelled"
     /\ appointments[req[c].id].reason = "checkup"

\* C23: no update and no cancel request, whatever its actor and its body,
\* changes the patient, the doctor or the dateTime of an appointment.
C23_IdentityFrozen ==
  [][\A c \in Clients :
        (UpdateAnswered(c) \/ RemoveArrives(c) \/ RemoveSaved(c))
        => \A i \in 1..Len(appointments) :
              /\ i \in 1..Len(appointments')
              /\ appointments'[i].patient = appointments[i].patient
              /\ appointments'[i].doctor = appointments[i].doctor
              /\ appointments'[i].dateTime = appointments[i].dateTime]_vars

\* the doctor's update cancelled the appointment, which kept its patient,
\* doctor and instant
C23_Witness ==
  \E c \in Clients :
     /\ Replied(c, "update") /\ req[c].status = 200
     /\ Role(req[c].user) = "doctor" /\ req[c].body.status = "cancelled"
     /\ req[c].id \in 1..Len(appointments)
     /\ appointments[req[c].id].status = "cancelled"
     /\ appointments[req[c].id].patient = "p1"
     /\ appointments[req[c].id].doctor = DoctorOf(req[c].user)
     /\ appointments[req[c].id].dateTime = 540

\* the step in which the listing answers c's request
ListAnswered(c) ==
  req[c].pc = "idle" /\ req'[c].op = "getAll" /\ req'[c].status = 200

\* C24: every appointment a listing returns to a patient has that user as
\* its patient, every one it returns to a doctor has that doctor's profile
\* as its doctor, and with a status filter every one has that status.
C24_ListingScoped ==
  [][\A c \in Clients :
        ListAnswered(c) =>
          \A n \in 1..Len(req'[c].data) :
             LET u == req'[c].user
                 i == req'[c].data[n]
             IN /\ i \in 1..Len(appointments)
                /\ u \in Patients => appointments[i].patient = u
                /\ u \in DoctorUsers =>
                      DoctorOf(u) # "none" /\ appointments[i].doctor = DoctorOf(u)
                /\ req'[c].body.status # ABSENT =>
                      appointments[i].status = req'[c].body.status]_vars

\* a patient asked for the confirmed appointments and got their own one,
\* another patient having a confirmed appointment too
C24_Witness ==
  \E c \in Clients, j \in 1..Len(appointments) :
     /\ Replied(c, "getAll") /\ req[c].status = 200
     /\ req[c].user = "p1" /\ req[c].body.status = "confirmed"
     /\ Len(req[c].data) = 1
     /\ appointments[req[c].data[1]].patient = "p1"
     /\ appointments[j].patient = "p2" /\ appointments[j].status = "confirmed"

ProbeAnswered(c) ==
  req[c].pc = "idle" /\ req'[c].op = "isSlotAvailable" /\ req'[c].pc = "replied"

\* C26: isSlotAvailable returns true exactly when no appointment has that
\* doctor, that dateTime, a status other than cancelled and an id other than
\* excludeId (0 when none is given); appointments of other doctors and at
\* other instants do not count.
C26_SlotAvailableIff ==
  [][\A c \in Clients :
        ProbeAnswered(c) =>
          LET d == req'[c].body.doctorId
              t == req'[c].body.dateTime
              x == req'[c].id
              holders == {i \in 1..Len(appointments) :
                            /\ appointments[i].doctor = d
                            /\ appointments[i].dateTime = t
                            /\ appointments[i].status # "cancelled"
                            /\ i # x}
          IN req'[c].data = <<holders = {}>>]_vars

\* the slot is held by the excluded appointment alone, another doctor has an
\* appointment at that instant, and the call returned true
C26_Witness ==
  \E c \in Clients, j \in 1..Len(appointments) :
     /\ Replied(c, "isSlotAvailable") /\ req[c].data = <<TRUE>>
     /\ req[c].id \in 1..Len(appointments)
     /\ appointments[req[c].id].doctor = req[c].body.doctorId
     /\ appointments[req[c].id].dateTime = req[c].body.dateTime
     /\ appointments[req[c].id].status # "cancelled"
     /\ appointments[j].doctor # req[c].body.doctorId
     /\ appointments[j].dateTime = req[c].body.dateTime
     /\ appointments[j].status # "cancelled"

\* C27: a call of isSlotAvailable and a listing of slots leave the
\* appointments and the doctors as they were, and two callers holding the
\* results of isSlotAvailable for the same arguments, no write having
\* happened since the first, hold the same result.
C27_PureReads ==
  /\ [][/\ \A c \in Clients :
             ProbeAnswered(c) => (appointments' = appointments /\ doctors' = doctors)
        /\ slotOut' # slotOut => (appointments' = appointments /\ doctors' = doctors)]_vars
  /\ [](\A c, o \in Clients :
          ( /\ Replied(c, "isSlotAvailable") /\ Replied(o, "isSlotAvailable")
            /\ req[c].body = req[o].body /\ req[c].id = req[o].id )
          => req[c].data = req[o].data)

\* two callers asked for a booked slot and both hold false, and the slots of
\* the doctor have been listed
C27_Witness ==
  /\ \A c \in Clients :
        /\ Replied(c, "isSlotAvailable") /\ req[c].data = <<FALSE>>
        /\ req[c].body = SlotQuery("d1", 540) /\ req[c].id = 0
  /\ slotOut.status = 200 /\ slotOut.slots # <<>>
  /\ Len(appointments) > 0

\* two different non-cancelled appointments of one doctor
BothActive(i, j) ==
  /\ i # j
  /\ appointments[i].status # "cancelled"
  /\ appointments[j].status # "cancelled"
  /\ appointments[i].doctor = appointments[j].doctor

Disjoint(a, b) == a.endTime <= b.dateTime \/ b.endTime <= a.dateTime

SameGrid(a, b) ==
  LET S == a.endTime - a.dateTime
  IN /\ b.endTime - b.dateTime = S
     /\ S > 0
     /\ (a.dateTime - b.dateTime) % S = 0

C29_CancelFieldsIff ==
  \A i \in 1..Len(appointments) :
     /\ appointments[i].cancelledBy \in {"patient", "doctor", "system"}
           <=> appointments[i].status = "cancelled"
     /\ appointments[i].cancellationReason # NULL
           => appointments[i].status = "cancelled"

\* a registration of the user with _id i is between its two creates
RegisterBetweenCreates(i) ==
  \E c \in Clients : req[c].pc = "createDoctor" /\ req[c].id = i

\* C30: a registration with role doctor is all-or-nothing: once its handler
\* has left the two creates, every user with role doctor has a Doctor profile
\* (a registration that is answered with an error leaves no User behind)
C30_RegisterAllOrNothing ==
  \A i \in 1..Len(users) :
    users[i].role = "doctor" =>
      \/ RegisterBetweenCreates(i)
      \/ /\ ProfileId(i) \in DOMAIN doctors
         /\ doctors[ProfileId(i)].user = i

====
